---- MODULE Spec2Model ----
(***************************************************************************)
(* Model of the e5000 sales-workflow application: the datastore rows       *)
(* (sessions, mockups, estimates), the API routes that write them, and the *)
(* session page's client-side state and handlers.                          *)
(*                                                                         *)
(* One client engagement (one session id) is followed from the state right *)
(* after createNewSession.  Every handler is one action; the parameter     *)
(* `fail` of an action is the number of the external call (datastore,      *)
(* storage, image generation, e-mail) of that handler that returns an      *)
(* error, 0 meaning that every call succeeds.                              *)
(***************************************************************************)
EXTENDS Integers, Sequences, FiniteSets, TLC

\* ------------------------------------------------------------------ bounds
MaxMockups == 2      \* mockup rows ever generated
MaxEstimates == 2    \* estimate rows ever inserted
MaxItems == 3        \* items of an estimate whose totals are computed
MantissaBits == 12   \* significand width of the numbers (a double has 53)

\* ------------------------------------------------------------------ values
NULL == "NULL"
SessionId == "s1"
PhotoUrl == "photo"
Placeholder == "New Client"
IdNames == <<"1", "2", "3", "4">>
MockupId(n) == "m" \o IdNames[n]
EstimateId(n) == "e" \o IdNames[n]

\* JavaScript truthiness of a nullable string column
Truthy(v) == v \notin {NULL, ""}

WORKFLOW_STEPS ==
  <<"draft", "photo_uploaded", "mockup_created", "estimate_generated",
    "contract_signed", "completed">>

\* statusToStep / statusToMaxStep: the step of a status, 1 for an unknown one
StatusToStep(st) ==
  IF \E i \in 1..Len(WORKFLOW_STEPS) : WORKFLOW_STEPS[i] = st
  THEN CHOOSE i \in 1..Len(WORKFLOW_STEPS) : WORKFLOW_STEPS[i] = st
  ELSE 1

VARIABLES
  sessions,     \* rows of table sessions
  mockups,      \* rows of table mockups
  estimates,    \* rows of table estimates
  nMockups,     \* mockup rows inserted so far (ids are never reused)
  nEstimates,   \* estimate rows inserted so far
  page,         \* which session page is deployed: "page" or "legacy"
  currentStep,  \* the page's currentStep
  uiSession,    \* the page's `session` state
  uiEstimate,   \* the page's `estimate` state
  isCompleted,  \* CompleteStep's isCompleted state
  cg,           \* ContractGenerator's contractUrl and isContractSigned state
  requests,     \* the requests being served one call at a time, by client
  calc,         \* the last catalog or totals computation: its input and result
  last          \* the last handler that ran and what it reported

vars == <<sessions, mockups, estimates, nMockups, nEstimates, page,
          currentStep, uiSession, uiEstimate, isCompleted, cg, requests, calc,
          last>>

dbVars == <<sessions, mockups, estimates, nMockups, nEstimates>>
uiVars == <<currentStep, uiSession, uiEstimate, isCompleted, cg>>
envVars == <<page, requests, calc>>

\* ------------------------------------------------------------------ rows
NoSession ==
  [id |-> NULL, client_name |-> NULL, client_email |-> NULL, status |-> NULL,
   original_image_url |-> NULL, final_mockup_url |-> NULL]

\* createNewSession's insert
NewSession ==
  [id |-> SessionId, client_name |-> Placeholder, client_email |-> NULL,
   status |-> "draft", original_image_url |-> NULL, final_mockup_url |-> NULL]

NoEstimate ==
  [id |-> NULL, session_id |-> NULL, items |-> <<>>, final_amount |-> NULL,
   contract_pdf_url |-> NULL, signature_data |-> NULL, signed_at |-> NULL]

NoContractState == [contractUrl |-> NULL, isContractSigned |-> FALSE]

\* the clients that may have a mark-final request in flight at the same time
Clients == {"c1", "c2"}
NoRequest == [pc |-> "idle", mockupId |-> NULL, image_url |-> NULL]

\* no computation has run yet
NoCalc == [op |-> "none"]

\* the tables as one value, so that a handler's calls compose
DB == [s |-> sessions, m |-> mockups, e |-> estimates,
       nm |-> nMockups, ne |-> nEstimates]

\* merge of an update's columns into a row
Patch(r, p) == [f \in DOMAIN r |-> IF f \in DOMAIN p THEN p[f] ELSE r[f]]

\* .from('sessions').update(p).eq('id', sid); no row matched is no error
UpdSession(D, sid, p) ==
  [D EXCEPT !.s = {IF r.id = sid THEN Patch(r, p) ELSE r : r \in D.s}]

\* .from('mockups').update(p).eq('session_id', sid)
UpdMockupsOfSession(D, sid, p) ==
  [D EXCEPT !.m = {IF r.session_id = sid THEN Patch(r, p) ELSE r : r \in D.m}]

\* .from('mockups').update(p).eq('id', mid)
UpdMockup(D, mid, p) ==
  [D EXCEPT !.m = {IF r.id = mid THEN Patch(r, p) ELSE r : r \in D.m}]

\* .from('estimates').update(p).eq('id', eid)
UpdEstimate(D, eid, p) ==
  [D EXCEPT !.e = {IF r.id = eid THEN Patch(r, p) ELSE r : r \in D.e}]

\* .single(): the one row, or an error when there is not exactly one
IsSingle(rows) == Cardinality(rows) = 1
Single(rows) == CHOOSE r \in rows : TRUE

SessionRows(D, sid) == {r \in D.s : r.id = sid}
EstimatesOf(D, sid) == {r \in D.e : r.session_id = sid}
MockupsOf(D, sid) == {r \in D.m : r.session_id = sid}

\* estimates_session_id_fkey, mockups_session_id_fkey: a dependent row needs
\* its session row, and a session row with dependents cannot be deleted
FkHolds(D, sid) == SessionRows(D, sid) # {}
FkBlocksDelete(D, sid) == EstimatesOf(D, sid) # {} \/ MockupsOf(D, sid) # {}

\* what a handler did: ok is the success it showed to its caller, sent the
\* types of the e-mails it handed to the e-mail provider
ReportSent(op, ok, arg, sent) ==
  [op |-> op, ok |-> ok, arg |-> arg, sent |-> sent]
Report(op, ok, arg) == ReportSent(op, ok, arg, {})

Commit(D) ==
  /\ sessions' = D.s
  /\ mockups' = D.m
  /\ estimates' = D.e
  /\ nMockups' = D.nm
  /\ nEstimates' = D.ne

\* ------------------------------------------------------------------ init
Init ==
  /\ sessions = {NewSession}
  /\ mockups = {}
  /\ estimates = {}
  /\ nMockups = 0
  /\ nEstimates = 0
  /\ page \in {"page", "legacy"}
  /\ currentStep = 1
  /\ uiSession = NewSession
  /\ uiEstimate = NoEstimate
  /\ isCompleted = FALSE
  /\ cg = NoContractState
  /\ requests = [c \in Clients |-> NoRequest]
  /\ calc = NoCalc
  /\ last = Report("createNewSession", TRUE, NULL)

\* ContractGenerator's state as initialised (and re-synchronised by its
\* effect) from the estimate prop; the component exists on step 5 only, and
\* only when the page holds an estimate
ContractState(k, est) ==
  IF k = 5 /\ est.id # NULL
  THEN [contractUrl |-> est.contract_pdf_url,
        isContractSigned |-> est.signed_at # NULL]
  ELSE NoContractState

\* the session page is showing a session
Loaded == uiSession.id # NULL

\* setCurrentStep; CompleteStep mounts when step 6 is entered, and its
\* isCompleted state starts from the session prop it is mounted with
GoTo(k, sess, est) ==
  /\ currentStep' = k
  /\ isCompleted' = IF k # 6 THEN FALSE
                    ELSE IF currentStep # 6 THEN sess.status = "completed"
                    ELSE isCompleted
  /\ cg' = IF k = 5 /\ currentStep = 5 THEN cg ELSE ContractState(k, est)

\* .from('sessions').update(p).eq('id', sid).select().single()
UpdateSessionSelect(D, sid, p, failed) ==
  LET D1 == UpdSession(D, sid, p)
  IN  IF failed \/ ~IsSingle(SessionRows(D1, sid))
      THEN [db |-> D, ok |-> FALSE, row |-> NoSession]
      ELSE [db |-> D1, ok |-> TRUE, row |-> Single(SessionRows(D1, sid))]

\* ------------------------------------------------------------------ page load
\* fetchSession (page) / getSession (legacy) on a full page load
Reload ==
  LET rows == SessionRows(DB, SessionId)
      ests == EstimatesOf(DB, SessionId)
      row == IF IsSingle(rows) THEN Single(rows) ELSE NoSession
      step == IF IsSingle(rows) THEN StatusToStep(row.status) ELSE 1
  IN  /\ uiSession' = row
      /\ uiEstimate' = IF IsSingle(rows) /\ IsSingle(ests)
                       THEN Single(ests) ELSE NoEstimate
      /\ currentStep' = step
      /\ isCompleted' = (step = 6 /\ row.status = "completed")
      /\ cg' = ContractState(step, IF IsSingle(rows) /\ IsSingle(ests)
                                    THEN Single(ests) ELSE NoEstimate)
      /\ last' = Report("reload", IsSingle(rows), NULL)
      /\ UNCHANGED <<dbVars, envVars>>

\* ------------------------------------------------------------------ client info
ClientNames == {"", "Alice"}
ClientEmails == {"", "a@b.c"}

\* ClientInfoForm.handleSave, then the page's onUpdate:
\* calls 1 the form's update, 2 the page's updateSession (page only)
SaveClientInfo(name, email, fail) ==
  /\ Loaded /\ currentStep = 1
  /\ IF name = ""   \* validateForm: the name is required
     THEN /\ last' = Report("saveClientInfo", FALSE, "invalid")
          /\ UNCHANGED <<dbVars, envVars, uiVars>>
     ELSE LET r1 == UpdateSessionSelect(DB, uiSession.id,
                      [client_name |-> name, client_email |-> email], fail = 1)
              r2 == UpdateSessionSelect(r1.db, SessionId, r1.row, fail = 2)
          IN  IF ~r1.ok
              THEN /\ last' = Report("saveClientInfo", FALSE, NULL)
                   /\ UNCHANGED <<dbVars, envVars, uiVars>>
              ELSE /\ last' = Report("saveClientInfo", TRUE, NULL)
                   /\ IF page = "page"
                      THEN /\ Commit(r2.db)
                           /\ uiSession' = IF r2.ok THEN r2.row ELSE uiSession
                      ELSE /\ Commit(r1.db)
                           /\ uiSession' = r1.row
                   /\ UNCHANGED <<envVars, currentStep, uiEstimate, isCompleted, cg>>

\* the same save on the page, one datastore call at a time: the form's update
\* returns the row it wrote, and the page's updateSession then writes every
\* column of that row
SaveClientInfoBegin(c, name, email) ==
  LET r1 == UpdateSessionSelect(DB, uiSession.id,
              [client_name |-> name, client_email |-> email], FALSE)
  IN  /\ page = "page"
      /\ Loaded /\ currentStep = 1
      /\ name # ""
      /\ requests[c].pc = "idle"
      /\ r1.ok
      /\ Commit(r1.db)
      /\ requests' = [requests EXCEPT ![c] = [pc |-> "clientinfo",
                                               row |-> r1.row]]
      /\ UNCHANGED <<page, calc, uiVars, last>>

SaveClientInfoEnd(c) ==
  LET r2 == UpdateSessionSelect(DB, SessionId, requests[c].row, FALSE)
  IN  /\ requests[c].pc = "clientinfo"
      /\ Commit(r2.db)
      /\ uiSession' = IF r2.ok THEN r2.row ELSE uiSession
      /\ requests' = [requests EXCEPT ![c] = NoRequest]
      /\ last' = Report("saveClientInfo", TRUE, NULL)
      /\ UNCHANGED <<page, calc, currentStep, uiEstimate, isCompleted, cg>>

\* ------------------------------------------------------------------ photo
\* an onPhotoUploaded that also moves the session to the photo stage
OnPhotoUploadedStaged(D, url, failed) ==
  LET r == UpdateSessionSelect(D, SessionId,
             [original_image_url |-> url, status |-> "photo_uploaded"], failed)
  IN  IF page = "page"
      THEN /\ Commit(r.db)
           /\ uiSession' = IF r.ok THEN r.row ELSE uiSession
      ELSE /\ Commit(UpdSession(D, SessionId, [status |-> "photo_uploaded"]))
           /\ uiSession' = [uiSession EXCEPT !.original_image_url = url]

\* the page's onPhotoUploaded(url): updateSession on the page (call `c`),
\* a local setSession on the legacy page
OnPhotoUploaded(D, url, failed) ==
  LET r == UpdateSessionSelect(D, SessionId, [original_image_url |-> url],
                               failed)
  IN  IF page = "page"
      THEN /\ Commit(r.db)
           /\ uiSession' = IF r.ok THEN r.row ELSE uiSession
      ELSE /\ Commit(D)
           /\ uiSession' = [uiSession EXCEPT !.original_image_url = url]

\* PhotoCapture.uploadImage: calls 1 storage upload, 2 session update,
\* 3 the page's updateSession
UploadPhoto(fail) ==
  /\ Loaded /\ currentStep = 2
  /\ IF fail \in {1, 2}
     THEN /\ last' = Report("uploadPhoto", FALSE, NULL)
          /\ UNCHANGED <<dbVars, envVars, uiVars>>
     ELSE /\ OnPhotoUploaded(
               UpdSession(DB, uiSession.id, [original_image_url |-> PhotoUrl]),
               PhotoUrl, fail = 3)
          /\ last' = Report("uploadPhoto", TRUE, NULL)
          /\ UNCHANGED <<envVars, currentStep, uiEstimate, isCompleted, cg>>

\* POST /api/delete-photo: calls 1 storage remove, 2 session update,
\* 3 mockups delete; only a failed session update is reported
DeletePhotoRoute(D, sid, imageUrl, fail) ==
  LET D1 == UpdSession(D, sid, [original_image_url |-> NULL])
      D2 == [D1 EXCEPT !.m = {r \in D1.m : r.session_id # sid}]
  IN  IF ~Truthy(sid) \/ ~Truthy(imageUrl) THEN [db |-> D, ok |-> FALSE]
      ELSE IF fail = 2 THEN [db |-> D, ok |-> FALSE]
      ELSE IF fail = 3 THEN [db |-> D1, ok |-> TRUE]
      ELSE [db |-> D2, ok |-> TRUE]

\* PhotoCapture.removeExistingPhoto: the route, then onPhotoUploaded('')
\* (call 4 is the page's updateSession)
RemovePhoto(fail) ==
  /\ Loaded /\ currentStep = 2
  /\ Truthy(uiSession.original_image_url)
  /\ LET r == DeletePhotoRoute(DB, uiSession.id, uiSession.original_image_url,
                               fail)
     IN  IF ~r.ok
         THEN /\ Commit(r.db)
              /\ last' = Report("removePhoto", FALSE, NULL)
              /\ UNCHANGED <<envVars, uiVars>>
         ELSE /\ OnPhotoUploaded(r.db, "", fail = 4)
              /\ last' = Report("removePhoto", TRUE, NULL)
              /\ UNCHANGED <<envVars, currentStep, uiEstimate, isCompleted, cg>>

\* ------------------------------------------------------------------ mockup
\* POST /api/generate-mockup: calls 1 session select, 2 image generation,
\* 3 storage upload, 4 mockup insert, 5 session update (result not read)
GenerateMockupRoute(D, sid, imageUrl, fail) ==
  LET mid == MockupId(D.nm + 1)
      row == [id |-> mid, session_id |-> sid, image_url |-> mid,
              is_final |-> FALSE]
      D1 == [D EXCEPT !.m = @ \cup {row}, !.nm = @ + 1]
      D2 == UpdSession(D1, sid, [status |-> "mockup_created",
                                 final_mockup_url |-> mid])
  IN  IF ~Truthy(sid) \/ ~Truthy(imageUrl)
      THEN [db |-> D, ok |-> FALSE, url |-> NULL]
      ELSE IF fail = 1 \/ ~IsSingle(SessionRows(D, sid))
      THEN [db |-> D, ok |-> FALSE, url |-> NULL]
      ELSE IF fail \in {2, 3} THEN [db |-> D, ok |-> FALSE, url |-> NULL]
      ELSE IF fail = 4 \/ ~FkHolds(D, sid)
      THEN [db |-> D, ok |-> FALSE, url |-> NULL]
      ELSE IF fail = 5 THEN [db |-> D1, ok |-> TRUE, url |-> mid]
      ELSE [db |-> D2, ok |-> TRUE, url |-> mid]

\* the page's handleMockupGenerated: updateSession({final_mockup_url}) on the
\* page, a console.log on the legacy page
OnMockupGenerated(D, url, failed) ==
  LET r == UpdateSessionSelect(D, SessionId, [final_mockup_url |-> url], failed)
  IN  IF page = "page"
      THEN /\ Commit(r.db)
           /\ uiSession' = IF r.ok THEN r.row ELSE uiSession
      ELSE /\ Commit(D)
           /\ uiSession' = uiSession

\* MockupGenerator.generateMockup: the photo guard, the route, the callback
\* (call 6 is the page's updateSession)
GenerateMockup(fail) ==
  /\ Loaded /\ currentStep = 3
  /\ nMockups < MaxMockups
  /\ IF ~Truthy(uiSession.original_image_url)
     THEN /\ last' = Report("generateMockup", FALSE, "rejected")
          /\ UNCHANGED <<dbVars, envVars, uiVars>>
     ELSE LET r == GenerateMockupRoute(DB, uiSession.id,
                                       uiSession.original_image_url, fail)
          IN  IF ~r.ok
              THEN /\ Commit(r.db)
                   /\ last' = Report("generateMockup", FALSE, NULL)
                   /\ UNCHANGED <<envVars, uiVars>>
              ELSE /\ OnMockupGenerated(r.db, r.url, fail = 6)
                   /\ last' = Report("generateMockup", TRUE, r.url)
                   /\ UNCHANGED <<envVars, currentStep, uiEstimate, isCompleted, cg>>

\* the same route while its image is being generated: the request is
\* accepted on the imageUrl it carries, and the insert and the session update
\* run when the image arrives, whether or not the client still waits
GenerateMockupBegin(c) ==
  /\ Loaded /\ currentStep = 3
  /\ nMockups < MaxMockups
  /\ Truthy(uiSession.original_image_url)
  /\ requests[c].pc = "idle"
  /\ IsSingle(SessionRows(DB, uiSession.id))
  /\ requests' = [requests EXCEPT ![c] =
                    [pc |-> "generating", mockupId |-> NULL,
                     image_url |-> uiSession.original_image_url]]
  /\ UNCHANGED <<dbVars, page, calc, uiVars, last>>

GenerateMockupEnd(c) ==
  LET r == GenerateMockupRoute(DB, SessionId, requests[c].image_url, 0)
  IN  /\ requests[c].pc = "generating"
      /\ Commit(r.db)
      /\ requests' = [requests EXCEPT ![c] = NoRequest]
      /\ last' = Report("generateMockupRoute", r.ok, r.url)
      /\ UNCHANGED <<page, calc, uiVars>>

\* ------------------------------------------------------------------ mark final
\* POST /api/mark-final: calls 1 get mockup, 2 reset, 3 set final, 4 session
MarkFinalNoReset(D, sid, mid, fail) ==
  LET found == {r \in D.m : r.id = mid}
      D2 == UpdMockup(D, mid, [is_final |-> TRUE])
      D3 == UpdSession(D2, sid, [final_mockup_url |-> Single(found).image_url])
  IN  IF ~Truthy(sid) \/ ~Truthy(mid) THEN [db |-> D, ok |-> FALSE]
      ELSE IF fail = 1 \/ ~IsSingle(found) THEN [db |-> D, ok |-> FALSE]
      ELSE IF fail \in {2, 3} THEN [db |-> D, ok |-> FALSE]
      ELSE IF fail = 4 THEN [db |-> D2, ok |-> FALSE]
      ELSE [db |-> D3, ok |-> TRUE]

MarkFinalRoute(D, sid, mid, fail) ==
  LET found == {r \in D.m : r.id = mid}
      D1 == UpdMockupsOfSession(D, sid, [is_final |-> FALSE])
      D2 == UpdMockup(D1, mid, [is_final |-> TRUE])
      D3 == UpdSession(D2, sid, [final_mockup_url |-> Single(found).image_url])
  IN  IF ~Truthy(sid) \/ ~Truthy(mid) THEN [db |-> D, ok |-> FALSE]
      ELSE IF fail = 1 \/ ~IsSingle(found) THEN [db |-> D, ok |-> FALSE]
      ELSE IF fail = 2 THEN [db |-> D, ok |-> FALSE]
      ELSE IF fail = 3 THEN [db |-> D1, ok |-> FALSE]
      ELSE IF fail = 4 THEN [db |-> D2, ok |-> FALSE]
      ELSE [db |-> D3, ok |-> TRUE]

\* a request to the mark-final route
ApiMarkFinal(n, fail) ==
  LET r == MarkFinalRoute(DB, SessionId, MockupId(n), fail)
  IN  /\ Commit(r.db)
      /\ last' = Report("markFinalRoute", r.ok, MockupId(n))
      /\ UNCHANGED <<envVars, uiVars>>

\* a caller that sends the request and, when it is answered with a failure,
\* sends the same request again; the first run fails at call `fail`
\* (0: at none), the re-run meets no failure
MarkFinalRerun(n, fail) ==
  LET r1 == MarkFinalRoute(DB, SessionId, MockupId(n), fail)
      r2 == MarkFinalRoute(r1.db, SessionId, MockupId(n), 0)
  IN  /\ Commit(r2.db)
      /\ last' = Report("markFinalRerun", r2.ok,
                        IF r1.ok THEN "repeated" ELSE "retried")
      /\ UNCHANGED <<envVars, uiVars>>

\* the same route one datastore call at a time, so that the requests of two
\* clients interleave: the route holds no lock and opens no transaction
MarkFinalRespond(c, ok) ==
  /\ requests' = [requests EXCEPT ![c] = NoRequest]
  /\ last' = Report("markFinalRoute", ok, requests[c].mockupId)

\* the mockup select; the row's image_url is kept for the session update
MarkFinalGet(c, n, failed) ==
  LET found == {r \in mockups : r.id = MockupId(n)}
  IN  /\ requests[c].pc = "idle"
      /\ IF failed \/ ~IsSingle(found)
         THEN /\ last' = Report("markFinalRoute", FALSE, MockupId(n))
              /\ UNCHANGED requests
         ELSE /\ requests' = [requests EXCEPT ![c] =
                   [pc |-> "reset", mockupId |-> MockupId(n),
                    image_url |-> Single(found).image_url]]
              /\ UNCHANGED last
      /\ UNCHANGED <<dbVars, page, calc, uiVars>>

\* update({is_final: false}).eq('session_id', sessionId)
MarkFinalReset(c, failed) ==
  /\ requests[c].pc = "reset"
  /\ IF failed
     THEN MarkFinalRespond(c, FALSE) /\ UNCHANGED dbVars
     ELSE /\ Commit(UpdMockupsOfSession(DB, SessionId, [is_final |-> FALSE]))
          /\ requests' = [requests EXCEPT ![c].pc = "final"]
          /\ UNCHANGED last
  /\ UNCHANGED <<page, calc, uiVars>>

\* update({is_final: true}).eq('id', mockupId)
MarkFinalSet(c, failed) ==
  /\ requests[c].pc = "final"
  /\ IF failed
     THEN MarkFinalRespond(c, FALSE) /\ UNCHANGED dbVars
     ELSE /\ Commit(UpdMockup(DB, requests[c].mockupId, [is_final |-> TRUE]))
          /\ requests' = [requests EXCEPT ![c].pc = "session"]
          /\ UNCHANGED last
  /\ UNCHANGED <<page, calc, uiVars>>

\* update({final_mockup_url: mockup.image_url}).eq('id', sessionId)
MarkFinalSession(c, failed) ==
  /\ requests[c].pc = "session"
  /\ IF failed
     THEN MarkFinalRespond(c, FALSE) /\ UNCHANGED dbVars
     ELSE /\ Commit(UpdSession(DB, SessionId,
                      [final_mockup_url |-> requests[c].image_url]))
          /\ MarkFinalRespond(c, TRUE)
  /\ UNCHANGED <<page, calc, uiVars>>

\* MockupGenerator.markAsFinal: calls 1 reset (result not read), 2 set final,
\* 3 session update (result not read); the mockup is one of the listed ones
MarkAsFinalClient(D, sid, mk, fail) ==
  LET D1 == IF fail = 1 THEN D
            ELSE UpdMockupsOfSession(D, sid, [is_final |-> FALSE])
      D2 == UpdMockup(D1, mk.id, [is_final |-> TRUE])
      D3 == IF fail = 3 THEN D2
            ELSE UpdSession(D2, sid, [final_mockup_url |-> mk.image_url])
  IN  IF fail = 2 THEN [db |-> D1, ok |-> FALSE]
      ELSE [db |-> D3, ok |-> TRUE]

MarkAsFinal(n, fail) ==
  /\ Loaded /\ currentStep = 3
  /\ \E mk \in MockupsOf(DB, uiSession.id) :
       /\ mk.id = MockupId(n)
       /\ LET r == MarkAsFinalClient(DB, uiSession.id, mk, fail)
          IN  /\ Commit(r.db)
              /\ last' = Report("markAsFinal", r.ok, mk.id)
  /\ UNCHANGED <<envVars, uiVars>>

\* ------------------------------------------------------------------ estimate
ItemLists == {<<>>, <<"sod">>}

\* POST /api/pricing: calls 1 estimate insert, 2 session update (result not
\* read); an empty array passes the `!items || !Array.isArray(items)` test
SaveEstimateRoute(D, sid, items, fail) ==
  LET eid == EstimateId(D.ne + 1)
      row == [id |-> eid, session_id |-> sid, items |-> items,
              final_amount |-> IF items = <<>> THEN "0" ELSE "total",
              contract_pdf_url |-> NULL, signature_data |-> NULL,
              signed_at |-> NULL]
      D1 == [D EXCEPT !.e = @ \cup {row}, !.ne = @ + 1]
      D2 == UpdSession(D1, sid, [status |-> "estimate_generated"])
      \* the response's estimate object: id, the totals and the items
      resp == [NoEstimate EXCEPT !.id = eid, !.items = items]
  IN  IF ~Truthy(sid) THEN [db |-> D, ok |-> FALSE, estimate |-> NoEstimate]
      ELSE IF fail = 1 \/ ~FkHolds(D, sid)
      THEN [db |-> D, ok |-> FALSE, estimate |-> NoEstimate]
      ELSE IF fail = 2 THEN [db |-> D1, ok |-> TRUE, estimate |-> resp]
      ELSE [db |-> D2, ok |-> TRUE, estimate |-> resp]

\* a request to the pricing route
ApiSaveEstimate(items, fail) ==
  /\ nEstimates < MaxEstimates
  /\ LET r == SaveEstimateRoute(DB, SessionId, items, fail)
     IN  /\ Commit(r.db)
         /\ last' = Report("saveEstimateRoute", r.ok,
                           IF items = <<>> THEN "empty" ELSE "items")
  /\ UNCHANGED <<envVars, uiVars>>

\* EstimateBuilder.saveEstimate: the empty-list guard, the route,
\* onEstimateCreated(result.estimate)
SaveEstimate(items, fail) ==
  /\ Loaded /\ currentStep = 4
  /\ nEstimates < MaxEstimates
  /\ IF items = <<>>
     THEN /\ last' = Report("saveEstimate", FALSE, "rejected")
          /\ UNCHANGED <<dbVars, envVars, uiVars>>
     ELSE LET r == SaveEstimateRoute(DB, uiSession.id, items, fail)
          IN  /\ Commit(r.db)
              /\ last' = Report("saveEstimate", r.ok, "items")
              /\ uiEstimate' = IF r.ok THEN r.estimate ELSE uiEstimate
              /\ UNCHANGED <<envVars, currentStep, uiSession,
                             isCompleted, cg>>

\* ------------------------------------------------------------------ contract
UnsignedPdf == "contract.pdf"
SignedPdf == "contract-signed.pdf"
UploadedPdf == "signed-contract.pdf"

\* POST /api/generate-contract: calls 1 session and estimate select,
\* 2 storage upload, 3 estimate update, 4 session update (result not read)
GenerateContractRoute(D, sid, eid, signed, fail) ==
  LET url == IF signed THEN SignedPdf ELSE UnsignedPdf
      D1 == UpdEstimate(D, eid,
              IF signed
              THEN [contract_pdf_url |-> url, signature_data |-> "signature",
                    signed_at |-> "now"]
              ELSE [contract_pdf_url |-> url])
      D2 == UpdSession(D1, sid,
              [status |-> IF signed THEN "contract_signed"
                          ELSE "estimate_generated"])
  IN  IF ~Truthy(sid) \/ ~Truthy(eid)
      THEN [db |-> D, ok |-> FALSE, url |-> NULL]
      ELSE IF fail = 1 \/ ~IsSingle(SessionRows(D, sid))
              \/ ~IsSingle({r \in D.e : r.id = eid})
      THEN [db |-> D, ok |-> FALSE, url |-> NULL]
      ELSE IF fail \in {2, 3} THEN [db |-> D, ok |-> FALSE, url |-> NULL]
      ELSE IF fail = 4 THEN [db |-> D1, ok |-> TRUE, url |-> url]
      ELSE [db |-> D2, ok |-> TRUE, url |-> url]

\* POST /api/upload-signed-contract: calls 1 session and estimate select,
\* 2 storage upload, 3 estimate update; the session row is not written
UploadSignedContractRoute(D, sid, eid, pdf, fail) ==
  LET D1 == UpdEstimate(D, eid, [contract_pdf_url |-> UploadedPdf,
                                 signed_at |-> "now"])
  IN  IF ~Truthy(sid) \/ ~Truthy(eid) \/ ~pdf
      THEN [db |-> D, ok |-> FALSE, url |-> NULL]
      ELSE IF fail = 1 \/ ~IsSingle(SessionRows(D, sid))
              \/ ~IsSingle({r \in D.e : r.id = eid})
      THEN [db |-> D, ok |-> FALSE, url |-> NULL]
      ELSE IF fail \in {2, 3} THEN [db |-> D, ok |-> FALSE, url |-> NULL]
      ELSE [db |-> D1, ok |-> TRUE, url |-> UploadedPdf]

\* POST /api/send-email: the session is read first, then the provider called
SendEmail(E, D, type, ok) ==
  IF ok /\ IsSingle(SessionRows(D, SessionId)) THEN E \cup {type} ELSE E

\* the two notification requests after a signing, calls c and c + 1, in one
\* try block: a request that throws skips the other one, an error response
\* does not
NotifySigned(E, D, c, fail, thrown) ==
  LET E1 == SendEmail(E, D, "contract_signed", fail # c)
  IN  IF fail = c /\ thrown THEN E1
      ELSE SendEmail(E1, D, "team_notification", fail # c + 1)

\* the page's onContractSigned: updateSession({status}) on the page,
\* getSession() on the legacy page
OnContractSigned(D, url, failed) ==
  LET cg0 == [contractUrl |-> url, isContractSigned |-> TRUE]
      r == UpdateSessionSelect(D, SessionId, [status |-> "contract_signed"],
                               failed)
      rows == SessionRows(D, SessionId)
      ests == EstimatesOf(D, SessionId)
      step == StatusToStep(Single(rows).status)
  IN  IF page = "page"
      THEN /\ Commit(r.db)
           /\ uiSession' = IF r.ok THEN r.row ELSE uiSession
           /\ cg' = cg0
           /\ UNCHANGED <<currentStep, uiEstimate, isCompleted>>
      ELSE /\ Commit(D)
           /\ IF failed \/ ~IsSingle(rows)
              THEN /\ cg' = cg0
                   /\ UNCHANGED <<currentStep, uiSession, uiEstimate,
                                  isCompleted>>
              ELSE /\ uiSession' = Single(rows)
                   /\ uiEstimate' = IF IsSingle(ests) THEN Single(ests)
                                    ELSE uiEstimate
                   /\ currentStep' = step
                   /\ isCompleted' = (step = 6
                                      /\ Single(rows).status = "completed")
                   /\ cg' = IF step # 5 THEN NoContractState
                            ELSE IF IsSingle(ests)
                            THEN ContractState(5, Single(ests))
                            ELSE cg0

\* the ContractGenerator is shown: step 5 with an estimate
ContractShown == Loaded /\ currentStep = 5 /\ uiEstimate.id # NULL

\* ContractGenerator.generateContract (no signature)
GenerateContract(fail) ==
  /\ ContractShown
  /\ cg.contractUrl = NULL
  /\ LET r == GenerateContractRoute(DB, uiSession.id, uiEstimate.id, FALSE,
                                    fail)
     IN  /\ Commit(r.db)
         /\ last' = Report("generateContract", r.ok, NULL)
         /\ cg' = IF r.ok THEN [cg EXCEPT !.contractUrl = r.url] ELSE cg
  /\ UNCHANGED <<envVars, currentStep, uiSession, uiEstimate,
                 isCompleted>>

\* ContractGenerator.signContract: the route with the signature (calls 1-4),
\* the notifications (calls 5, 6), onContractSigned (call 7)
SignContract(fail, thrown) ==
  /\ ContractShown
  /\ cg.contractUrl # NULL /\ ~cg.isContractSigned
  /\ LET r == GenerateContractRoute(DB, uiSession.id, uiEstimate.id, TRUE,
                                    fail)
     IN  IF ~r.ok
         THEN /\ Commit(r.db)
              /\ last' = Report("signContract", FALSE, NULL)
              /\ UNCHANGED uiVars
         ELSE /\ OnContractSigned(r.db, r.url, fail = 7)
              /\ last' = ReportSent("signContract", TRUE, NULL,
                                    NotifySigned({}, r.db, 5, fail, thrown))
  /\ UNCHANGED envVars

\* ContractGenerator.handleSignedContractUpload: the file-type guard, the
\* route (calls 1-3), the notifications (calls 4, 5), onContractSigned (6)
UploadSignedContract(pdf, fail, thrown) ==
  /\ ContractShown
  /\ cg.contractUrl # NULL /\ ~cg.isContractSigned
  /\ IF ~pdf
     THEN /\ last' = Report("uploadSignedContract", FALSE, "rejected")
          /\ UNCHANGED <<dbVars, uiVars>>
     ELSE LET r == UploadSignedContractRoute(DB, uiSession.id, uiEstimate.id,
                                             pdf, fail)
          IN  IF ~r.ok
              THEN /\ Commit(r.db)
                   /\ last' = Report("uploadSignedContract", FALSE, NULL)
                   /\ UNCHANGED uiVars
              ELSE /\ OnContractSigned(r.db, r.url, fail = 6)
                   /\ last' = ReportSent("uploadSignedContract", TRUE, NULL,
                                NotifySigned({}, r.db, 4, fail, thrown))
  /\ UNCHANGED envVars

\* ------------------------------------------------------------------ complete
\* CompleteStep.completeSession (legacy page): calls 1 session update,
\* 2 the completion e-mail
CompleteSession(fail) ==
  /\ page = "legacy"
  /\ Loaded /\ currentStep = 6 /\ ~isCompleted
  /\ IF fail = 1
     THEN /\ last' = Report("completeSession", FALSE, NULL)
          /\ UNCHANGED <<dbVars, isCompleted>>
     ELSE LET D1 == UpdSession(DB, uiSession.id, [status |-> "completed"])
          IN  /\ Commit(D1)
              /\ isCompleted' = TRUE
              /\ last' = ReportSent("completeSession", TRUE, NULL,
                            SendEmail({}, D1, "project_complete", fail # 2))
  /\ UNCHANGED <<envVars, currentStep, uiSession, uiEstimate, cg>>

\* ------------------------------------------------------------------ navigation
\* the page's getMaxClickableStep
GetMaxClickableStep == StatusToStep(uiSession.status)

\* the legacy page's getStepStatus: the completed set from the page's data
LegacyCompletedSteps ==
  {k \in 1..6 :
     \/ k = 1 /\ Truthy(uiSession.client_name) /\ Truthy(uiSession.client_email)
     \/ k = 2 /\ Truthy(uiSession.original_image_url)
     \/ k = 3 /\ Truthy(uiSession.final_mockup_url)
     \/ k = 4 /\ uiEstimate.id # NULL
     \/ k \in {5, 6} /\ uiEstimate.signed_at # NULL}

\* the page's getStepStatus: every step below the status' step is completed
PageCompletedSteps == {k \in 1..6 : k <= GetMaxClickableStep - 1}

\* the steps getStepStatus reports as completed, on either page
CompletedSteps ==
  IF page = "page" THEN PageCompletedSteps ELSE LegacyCompletedSteps

\* handleStepClick's test, on either page
IsClickable(k) ==
  IF page = "page"
  THEN k <= GetMaxClickableStep
  ELSE k \in LegacyCompletedSteps \/ k = currentStep \/ k <= currentStep + 1

StepClick(k) ==
  /\ Loaded
  /\ IF IsClickable(k)
     THEN GoTo(k, uiSession, uiEstimate)
     ELSE UNCHANGED <<currentStep, isCompleted, cg>>
  /\ last' = Report("stepClick", IsClickable(k), ToString(k))
  /\ UNCHANGED <<dbVars, envVars, uiSession, uiEstimate>>

\* whether the step's Next / Continue button is shown and enabled
CanProceed(k) ==
  IF page = "page"
  THEN CASE k = 1 -> Truthy(uiSession.client_name)
                     /\ uiSession.client_name # Placeholder
         [] k = 2 -> Truthy(uiSession.original_image_url)
         [] k = 3 -> Truthy(uiSession.final_mockup_url)
         [] k = 4 -> uiEstimate.id # NULL
                     /\ uiEstimate.final_amount \notin {NULL, "0"}
         [] k = 5 -> uiEstimate.id # NULL
         [] OTHER -> FALSE
  ELSE CASE k = 1 -> TRUE
         [] k = 2 -> Truthy(uiSession.original_image_url)
         [] k = 3 -> Truthy(uiSession.final_mockup_url)
         [] k = 4 -> uiEstimate.id # NULL
         [] k = 5 -> uiEstimate.id # NULL
         [] OTHER -> FALSE

NextStep ==
  /\ Loaded
  /\ CanProceed(currentStep)
  /\ GoTo(currentStep + 1, uiSession, uiEstimate)
  /\ last' = Report("next", TRUE, ToString(currentStep + 1))
  /\ UNCHANGED <<dbVars, envVars, uiSession, uiEstimate>>

\* the legacy page's Back buttons
BackStep ==
  /\ page = "legacy"
  /\ Loaded
  /\ currentStep > 1
  /\ GoTo(currentStep - 1, uiSession, uiEstimate)
  /\ last' = Report("back", TRUE, ToString(currentStep - 1))
  /\ UNCHANGED <<dbVars, envVars, uiSession, uiEstimate>>

\* ------------------------------------------------------------------ delete
\* a deleteSession that removes the session row alone
DeleteSessionRowOnly(D, sid, fail) ==
  IF fail = 3 THEN [db |-> D, ok |-> FALSE]
  ELSE [db |-> [D EXCEPT !.s = {r \in D.s : r.id # sid}], ok |-> TRUE]

\* Dashboard.deleteSession: calls 1 estimates delete, 2 mockups delete (their
\* results are not read), 3 session delete; the user is on the dashboard
DeleteSessionRows(D, sid, fail) ==
  LET D1 == IF fail = 1 THEN D
            ELSE [D EXCEPT !.e = {r \in D.e : r.session_id # sid}]
      D2 == IF fail = 2 THEN D1
            ELSE [D1 EXCEPT !.m = {r \in D1.m : r.session_id # sid}]
      D3 == [D2 EXCEPT !.s = {r \in D2.s : r.id # sid}]
  IN  IF fail = 3 \/ FkBlocksDelete(D2, sid)
      THEN [db |-> D2, ok |-> FALSE]
      ELSE [db |-> D3, ok |-> TRUE]

DeleteSession(fail) ==
  /\ SessionRows(DB, SessionId) # {}
  /\ LET r == DeleteSessionRows(DB, SessionId, fail)
     IN  /\ Commit(r.db)
         /\ last' = Report("deleteSession", r.ok, NULL)
  /\ currentStep' = 1
  /\ uiSession' = NoSession
  /\ uiEstimate' = NoEstimate
  /\ isCompleted' = FALSE
  /\ cg' = NoContractState
  /\ UNCHANGED envVars

\* ------------------------------------------------------------------ catalog
\* String.prototype.toLowerCase on the category names used here
Lower(c) == IF c = "Lawn" THEN "lawn" ELSE c

\* the category query parameter; NULL when the request carries none
Categories == {NULL, "lawn", "Lawn", "trees"}

\* rows of pricing_items, in .order('name') order
DbLawn == [id |-> "db-aeration", category |-> "lawn"]
DbTree == [id |-> "db-birch", category |-> "trees"]
DbOutcomes ==
  {[error |-> TRUE, items |-> <<>>]}
  \cup {[error |-> FALSE, items |-> i] :
          i \in {<<>>, <<DbLawn>>, <<DbTree>>, <<DbLawn, DbTree>>}}

\* the spreadsheet: not configured, failing, or the rows of its range
\* (a header row, then name and category columns; "" is an empty cell)
Header == [name |-> "Name", category |-> "Category"]
RowLawn == [name |-> "Sod", category |-> "Lawn"]
RowTree == [name |-> "Maple", category |-> "trees"]
RowBare == [name |-> "Delivery", category |-> ""]
SheetOutcomes ==
  {[kind |-> "unconfigured", rows |-> <<>>], [kind |-> "error", rows |-> <<>>]}
  \cup {[kind |-> "rows", rows |-> r] :
          r \in {<<>>, <<Header>>, <<Header, RowLawn>>, <<Header, RowTree>>,
                 <<Header, RowLawn, RowTree>>, <<Header, RowBare>>}}

\* the built-in list
DefaultItems ==
  <<[id |-> "default-1", category |-> "lawn"],
    [id |-> "default-2", category |-> "planting"],
    [id |-> "default-3", category |-> "trees"],
    [id |-> "default-4", category |-> "trees"],
    [id |-> "default-5", category |-> "maintenance"],
    [id |-> "default-6", category |-> "irrigation"],
    [id |-> "default-7", category |-> "hardscape"],
    [id |-> "default-8", category |-> "lighting"]>>

\* the filter of the spreadsheet and default items: no category, or the same
\* category whatever the case
MatchesCategory(item, category) ==
  ~Truthy(category) \/ Lower(item.category) = Lower(category)

\* the pricing_items query: .eq('category', category) when one is given
DbItems(category, db) ==
  IF db.error THEN <<>>
  ELSE IF Truthy(category)
       THEN SelectSeq(db.items, LAMBDA it : it.category = category)
       ELSE db.items

\* rows.slice(1).map(...).filter(...): ids count the rows after the header,
\* an empty category cell becomes 'general'
SheetItems(category, rows) ==
  LET parsed == [i \in 1..(Len(rows) - 1) |->
                   [id |-> "sheet-" \o ToString(i - 1),
                    category |-> IF rows[i + 1].category = "" THEN "general"
                                 ELSE rows[i + 1].category]]
  IN  IF Len(rows) <= 1 THEN <<>>
      ELSE SelectSeq(parsed, LAMBDA it : MatchesCategory(it, category))

\* a GET /api/pricing that lets a spreadsheet failure escape to the outer
\* catch
FetchPricingUncaught(category, db, sheet) ==
  IF db.error \/ sheet.kind = "error"
  THEN [ok |-> FALSE, items |-> <<>>, source |-> NULL]
  ELSE [ok |-> TRUE, items |-> DbItems(category, db), source |-> "database"]

\* GET /api/pricing
FetchPricing(category, db, sheet) ==
  LET dbItems == DbItems(category, db)
      defaults == SelectSeq(DefaultItems,
                            LAMBDA it : MatchesCategory(it, category))
  IN  IF ~db.error /\ Len(dbItems) > 0
      THEN [ok |-> TRUE, items |-> dbItems, source |-> "database"]
      ELSE IF sheet.kind = "rows" /\ Len(sheet.rows) = 0
      THEN [ok |-> TRUE, items |-> <<>>, source |-> "sheets"]
      ELSE IF sheet.kind = "rows"
      THEN [ok |-> TRUE, items |-> SheetItems(category, sheet.rows),
            source |-> "sheets"]
      ELSE [ok |-> TRUE, items |-> defaults, source |-> "default"]

\* a request to GET /api/pricing
GetPricing(category, db, sheet) ==
  /\ calc' = [op |-> "fetchPricing", category |-> category, db |-> db,
              sheet |-> sheet, out |-> FetchPricing(category, db, sheet)]
  /\ UNCHANGED <<dbVars, uiVars, page, requests, last>>

\* ------------------------------------------------------------------ numbers
\* A JavaScript number is a binary floating-point value: a significand m of
\* MantissaBits bits and an exponent e, standing for m * 2^e, every
\* operation rounding its exact result to the nearest such value, ties to the
\* even significand.  Only non-negative values occur.  NaN is what arithmetic
\* on undefined gives, and every operation on NaN gives NaN.
Zero == [m |-> 0, e |-> 0]
NaN == [m |-> -1, e |-> 0]

RECURSIVE BitLen(_)
BitLen(n) == IF n = 0 THEN 0 ELSE 1 + BitLen(n \div 2)

\* the number nearest to n * 2^e
Fl(n, e) ==
  LET k == BitLen(n) - MantissaBits
      q == n \div 2^k
      r == n % 2^k
      up == r > 2^(k - 1) \/ (r = 2^(k - 1) /\ q % 2 = 1)
      q1 == IF up THEN q + 1 ELSE q
  IN  IF n = 0 THEN Zero
      ELSE IF k <= 0 THEN [m |-> n * 2^(0 - k), e |-> e + k]
      ELSE IF q1 = 2^MantissaBits
      THEN [m |-> 2^(MantissaBits - 1), e |-> e + k + 1]
      ELSE [m |-> q1, e |-> e + k]

\* a + b
FAdd(a, b) ==
  LET lo == IF a.e < b.e THEN a.e ELSE b.e
  IN  IF a = NaN \/ b = NaN THEN NaN
      ELSE IF a.m = 0 THEN b
      ELSE IF b.m = 0 THEN a
      ELSE IF a.e - b.e > MantissaBits + 1 THEN a
      ELSE IF b.e - a.e > MantissaBits + 1 THEN b
      ELSE Fl(a.m * 2^(a.e - lo) + b.m * 2^(b.e - lo), lo)

\* a - b, for a >= b
FSub(a, b) ==
  LET lo == IF a.e < b.e THEN a.e ELSE b.e
  IN  IF a = NaN \/ b = NaN THEN NaN
      ELSE IF b.m = 0 THEN a
      ELSE IF a.e - b.e > MantissaBits + 1 THEN a
      ELSE Fl(a.m * 2^(a.e - lo) - b.m * 2^(b.e - lo), lo)

\* a * b
FMul(a, b) ==
  IF a = NaN \/ b = NaN THEN NaN ELSE Fl(a.m * b.m, a.e + b.e)

\* a / b, for b > 0: the quotient to MantissaBits + 2 bits and a sticky bit
FDiv(a, b) ==
  LET n == a.m * 2^(MantissaBits + 2)
  IN  IF a = NaN \/ b = NaN THEN NaN
      ELSE IF a.m = 0 THEN Zero
      ELSE Fl(2 * (n \div b.m) + (IF n % b.m = 0 THEN 0 ELSE 1),
              a.e - b.e - MantissaBits - 3)

\* the number a decimal literal of c hundredths parses to, e.g. 250 for 2.50
Num(c) == FDiv(Fl(c, 0), Fl(100, 0))

\* Number.prototype.toFixed(2), in hundredths
ToFixed2(f) ==
  IF f.e >= 0 THEN f.m * 100 * 2^f.e
  ELSE (f.m * 200 + 2^(0 - f.e)) \div 2^(1 - f.e)

\* ------------------------------------------------------------------ totals
\* the items of a request body: quantity, and the prices in hundredths
EstimateItems ==
  {[quantity |-> 2, selectedPrice |-> 1000, lowPrice |-> 800,
    highPrice |-> 1200],
   [quantity |-> 1, selectedPrice |-> 500, lowPrice |-> 400,
    highPrice |-> 600],
   [quantity |-> 1, selectedPrice |-> 10, lowPrice |-> 10, highPrice |-> 20],
   [quantity |-> 1, selectedPrice |-> 20, lowPrice |-> 10, highPrice |-> 30]}
Percents == {0, 8, 10}

\* the item lists of at most MaxItems items
ItemSeqs == UNION {[1..n -> EstimateItems] : n \in 0..MaxItems}

\* item[price] as an operand: a property the object lacks reads undefined,
\* which arithmetic turns into NaN
Prop(item, price) ==
  IF price \in DOMAIN item THEN Num(item[price]) ELSE NaN

\* items.reduce((sum, item) => sum + item.quantity * price(item), 0)
RECURSIVE SumOf(_, _)
SumOf(items, price) ==
  IF items = <<>> THEN Zero
  ELSE FAdd(SumOf(SubSeq(items, 1, Len(items) - 1), price),
            FMul(Fl(items[Len(items)].quantity, 0),
                 Prop(items[Len(items)], price)))

\* totals that tax the subtotal before the discount is taken off
TotalsTaxFirst(items, discountPercent, taxPercent) ==
  LET subtotal == SumOf(items, "selectedPrice")
      discountAmount == FMul(subtotal, FDiv(Fl(discountPercent, 0), Fl(100, 0)))
      taxAmount == FMul(subtotal, FDiv(Fl(taxPercent, 0), Fl(100, 0)))
  IN  [subtotal |-> subtotal, discountAmount |-> discountAmount,
       taxAmount |-> taxAmount,
       total |-> FAdd(FSub(subtotal, discountAmount), taxAmount)]

\* EstimateBuilder.calculateTotals
CalculateTotals(items, discountPercent, taxPercent) ==
  LET subtotal == SumOf(items, "selectedPrice")
      discountAmount == FMul(subtotal, FDiv(Fl(discountPercent, 0), Fl(100, 0)))
      afterDiscount == FSub(subtotal, discountAmount)
      taxAmount == FMul(afterDiscount, FDiv(Fl(taxPercent, 0), Fl(100, 0)))
  IN  [subtotal |-> subtotal, discountAmount |-> discountAmount,
       taxAmount |-> taxAmount, total |-> FAdd(afterDiscount, taxAmount)]

\* the totals of POST /api/pricing: the same, and the price range
RouteTotals(items, discountPercent, taxPercent) ==
  LET t == CalculateTotals(items, discountPercent, taxPercent)
  IN  [subtotal |-> t.subtotal, discountAmount |-> t.discountAmount,
       taxAmount |-> t.taxAmount, total |-> t.total,
       lowEstimate |-> SumOf(items, "lowPrice"),
       highEstimate |-> SumOf(items, "highPrice")]

\* JSON.stringify of a number in the insert's body: NaN is written as null
JsonNumber(x) ==
  IF x = NaN THEN [null |-> TRUE, number |-> Zero]
  ELSE [null |-> FALSE, number |-> x]

\* the catalog items the builder lists, prices in hundredths
PricingItems ==
  {[id |-> "default-1", low_price |-> 250, high_price |-> 400],
   [id |-> "default-2", low_price |-> 800, high_price |-> 1500],
   [id |-> "default-5", low_price |-> 350, high_price |-> 500]}

\* the sequences of at most MaxItems clicks on catalog items
PickSeqs == UNION {[1..n -> PricingItems] : n \in 1..MaxItems}

\* EstimateBuilder.addItemToEstimate: one more of an item already listed, or
\* the catalog item with quantity 1 and the middle price
AddItemToEstimate(estimateItems, item) ==
  IF \E i \in DOMAIN estimateItems : estimateItems[i].id = item.id
  THEN [i \in DOMAIN estimateItems |->
          IF estimateItems[i].id = item.id
          THEN [estimateItems[i] EXCEPT !.quantity = @ + 1]
          ELSE estimateItems[i]]
  ELSE Append(estimateItems,
              [id |-> item.id, low_price |-> item.low_price,
               high_price |-> item.high_price, quantity |-> 1,
               selectedPrice |-> (item.low_price + item.high_price) \div 2])

\* the builder's list after the clicks
RECURSIVE Picked(_)
Picked(picks) ==
  IF picks = <<>> THEN <<>>
  ELSE AddItemToEstimate(Picked(SubSeq(picks, 1, Len(picks) - 1)),
                         picks[Len(picks)])

\* the columns of the estimate row the route inserts for a request body
InsertedTotals(items, discountPercent, taxPercent) ==
  LET t == RouteTotals(items, discountPercent, taxPercent)
  IN  [subtotal |-> JsonNumber(t.subtotal),
       low_estimate |-> JsonNumber(t.lowEstimate),
       high_estimate |-> JsonNumber(t.highEstimate),
       final_amount |-> JsonNumber(t.total)]

\* items picked in the builder, then EstimateBuilder.saveEstimate: the
\* builder's list is the request's items array
BuildEstimate(picks, discountPercent, taxPercent) ==
  /\ calc' = [op |-> "buildEstimate", items |-> Picked(picks),
              discountPercent |-> discountPercent, taxPercent |-> taxPercent,
              inserted |-> InsertedTotals(Picked(picks), discountPercent,
                                          taxPercent)]
  /\ UNCHANGED <<dbVars, uiVars, page, requests, last>>

\* the totals of one item list, as the builder shows them and as the route
\* stores them
ComputeTotals(items, discountPercent, taxPercent) ==
  /\ calc' = [op |-> "computeTotals", items |-> items,
              discountPercent |-> discountPercent, taxPercent |-> taxPercent,
              shown |-> CalculateTotals(items, discountPercent, taxPercent),
              out |-> RouteTotals(items, discountPercent, taxPercent)]
  /\ UNCHANGED <<dbVars, uiVars, page, requests, last>>

\* ------------------------------------------------------------------ next
Next ==
  \/ Reload
  \/ \E name \in ClientNames, email \in ClientEmails, fail \in 0..2 :
       SaveClientInfo(name, email, fail)
  \/ \E fail \in 0..3 : UploadPhoto(fail)
  \/ \E fail \in 0..4 : RemovePhoto(fail)
  \/ \E fail \in 0..6 : GenerateMockup(fail)
  \/ \E n \in 1..MaxMockups, fail \in 0..3 : MarkAsFinal(n, fail)
  \/ \E n \in 1..MaxMockups, fail \in 0..4 : ApiMarkFinal(n, fail)
  \/ \E items \in ItemLists, fail \in 0..2 : SaveEstimate(items, fail)
  \/ \E items \in ItemLists, fail \in 0..2 : ApiSaveEstimate(items, fail)
  \/ \E fail \in 0..4 : GenerateContract(fail)
  \/ \E fail \in 0..7, thrown \in BOOLEAN : SignContract(fail, thrown)
  \/ \E pdf \in BOOLEAN, fail \in 0..6, thrown \in BOOLEAN :
       UploadSignedContract(pdf, fail, thrown)
  \/ \E fail \in 0..2 : CompleteSession(fail)
  \/ \E k \in 1..6 : StepClick(k)
  \/ NextStep
  \/ BackStep
  \/ \E fail \in 0..3 : DeleteSession(fail)
  \/ \E c \in Clients, n \in 1..MaxMockups, failed \in BOOLEAN :
       MarkFinalGet(c, n, failed)
  \/ \E c \in Clients, failed \in BOOLEAN : MarkFinalReset(c, failed)
  \/ \E c \in Clients, failed \in BOOLEAN : MarkFinalSet(c, failed)
  \/ \E c \in Clients, failed \in BOOLEAN : MarkFinalSession(c, failed)
  \/ \E category \in Categories, db \in DbOutcomes, sheet \in SheetOutcomes :
       GetPricing(category, db, sheet)
  \/ \E items \in ItemSeqs, d \in Percents, t \in Percents :
       ComputeTotals(items, d, t)
  \/ \E n \in 1..MaxMockups, fail \in 0..4 : MarkFinalRerun(n, fail)
  \/ \E picks \in PickSeqs, d \in Percents, t \in Percents :
       BuildEstimate(picks, d, t)
  \/ \E c \in Clients, name \in ClientNames, email \in ClientEmails :
       SaveClientInfoBegin(c, name, email)
  \/ \E c \in Clients : SaveClientInfoEnd(c)
  \/ \E c \in Clients : GenerateMockupBegin(c)
  \/ \E c \in Clients : GenerateMockupEnd(c)

Spec == Init /\ [][Next]_vars

\* the photo and mockup stages only
NextMockup ==
  \/ Reload
  \/ \E email \in ClientEmails, fail \in 0..2 :
       SaveClientInfo("Alice", email, fail)
  \/ \E fail \in 0..3 : UploadPhoto(fail)
  \/ \E fail \in 0..4 : RemovePhoto(fail)
  \/ \E fail \in 0..6 : GenerateMockup(fail)
  \/ \E n \in 1..MaxMockups, fail \in 0..3 : MarkAsFinal(n, fail)
  \/ \E n \in 1..MaxMockups, fail \in 0..4 : ApiMarkFinal(n, fail)
  \/ \E k \in 1..3 : StepClick(k)
  \/ NextStep /\ currentStep < 3
  \/ BackStep

SpecMockup == Init /\ [][NextMockup]_vars

\* two clients' mark-final requests, after the photo and the mockups
NextRace ==
  \/ \E email \in ClientEmails : SaveClientInfo("Alice", email, 0)
  \/ UploadPhoto(0)
  \/ GenerateMockup(0)
  \/ NextStep /\ currentStep < 3
  \/ \E c \in Clients, n \in 1..MaxMockups, failed \in BOOLEAN :
       MarkFinalGet(c, n, failed)
  \/ \E c \in Clients, failed \in BOOLEAN : MarkFinalReset(c, failed)
  \/ \E c \in Clients, failed \in BOOLEAN : MarkFinalSet(c, failed)
  \/ \E c \in Clients, failed \in BOOLEAN : MarkFinalSession(c, failed)

SpecRace == Init /\ [][NextRace]_vars

\* the rows of a session from their creation to the session's deletion
NextDelete ==
  \/ Reload
  \/ SaveClientInfo("Alice", "a@b.c", 0)
  \/ UploadPhoto(0)
  \/ \E fail \in {0, 4} : GenerateMockup(fail)
  \/ \E items \in ItemLists, fail \in 0..1 : SaveEstimate(items, fail)
  \/ \E items \in ItemLists, fail \in 0..1 : ApiSaveEstimate(items, fail)
  \/ NextStep /\ currentStep < 4
  \/ \E fail \in 0..3 : DeleteSession(fail)

SpecDelete == Init /\ [][NextDelete]_vars

\* the estimate, contract and completion stages, after failure-free earlier
\* stages
NextContract ==
  \/ Reload
  \/ SaveClientInfo("Alice", "a@b.c", 0)
  \/ UploadPhoto(0)
  \/ GenerateMockup(0)
  \/ SaveEstimate(<<"sod">>, 0)
  \/ \E items \in ItemLists : ApiSaveEstimate(items, 0)
  \/ \E fail \in 0..4 : GenerateContract(fail)
  \/ \E fail \in 0..7, thrown \in BOOLEAN : SignContract(fail, thrown)
  \/ \E pdf \in BOOLEAN, fail \in 0..6, thrown \in BOOLEAN :
       UploadSignedContract(pdf, fail, thrown)
  \/ \E fail \in 0..2 : CompleteSession(fail)
  \/ NextStep
  \/ BackStep

SpecContract == Init /\ [][NextContract]_vars

\* the catalog resolver on every outcome of its two external sources
NextPricing ==
  \E category \in Categories, db \in DbOutcomes, sheet \in SheetOutcomes :
    GetPricing(category, db, sheet)

SpecPricing == Init /\ [][NextPricing]_vars

\* the mockup step with callers that repeat their mark-final request
NextMarkFinal ==
  \/ Reload
  \/ UploadPhoto(0)
  \/ GenerateMockup(0)
  \/ \E n \in 1..MaxMockups, fail \in 0..3 : MarkAsFinal(n, fail)
  \/ \E n \in 1..MaxMockups, fail \in 0..4 : ApiMarkFinal(n, fail)
  \/ \E n \in 1..MaxMockups, fail \in 0..4 : MarkFinalRerun(n, fail)
  \/ NextStep /\ currentStep < 3
  \/ BackStep

SpecMarkFinal == Init /\ [][NextMarkFinal]_vars

\* the whole workflow with free navigation between steps: no failure but the
\* photo upload's, and one estimate
NextWorkflow ==
  \/ Reload
  \/ SaveClientInfo("Alice", "a@b.c", 0)
  \/ \E fail \in 0..3 : UploadPhoto(fail)
  \/ GenerateMockup(0)
  \/ estimates = {} /\ SaveEstimate(<<"sod">>, 0)
  \/ GenerateContract(0)
  \/ SignContract(0, FALSE)
  \/ CompleteSession(0)
  \/ \E k \in 1..6 : StepClick(k)
  \/ NextStep
  \/ BackStep

SpecWorkflow == Init /\ [][NextWorkflow]_vars

\* the photo and mockup steps with a mockup generation and a client-info save
\* in flight while the user moves on; no call fails
NextInflight ==
  \/ Reload
  \/ \E email \in ClientEmails : SaveClientInfo("Alice", email, 0)
  \/ \E email \in ClientEmails : SaveClientInfoBegin("c2", "Alice", email)
  \/ SaveClientInfoEnd("c2")
  \/ UploadPhoto(0)
  \/ RemovePhoto(0)
  \/ GenerateMockupBegin("c1")
  \/ GenerateMockupEnd("c1")
  \/ \E k \in 1..3 : StepClick(k)
  \/ NextStep /\ currentStep < 3
  \/ BackStep

SpecInflight == Init /\ [][NextInflight]_vars

\* the estimate calculator on every item list, discount and tax, each
\* calculation explored once from the initial state
NextTotals ==
  \/ \E items \in ItemSeqs, d \in Percents, t \in Percents :
       calc.op = "none" /\ ComputeTotals(items, d, t)
  \/ \E picks \in PickSeqs, d \in Percents, t \in Percents :
       calc.op = "none" /\ BuildEstimate(picks, d, t)

SpecTotals == Init /\ [][NextTotals]_vars

\* ------------------------------------------------------------------ properties
\* the session's mockups that are marked final
FinalMockups == {r \in mockups : r.session_id = SessionId /\ r.is_final}

\* C1: marking mockup B of the session final while another mockup A of it is
\* final leaves, once the operation has reported success, B as the only final
\* mockup of the session and the session's final_mockup_url equal to B's
\* image_url.
C1_MarkFinalPostcondition ==
  [][\A n \in 1..MaxMockups, fail \in 0..4 :
       ( /\ MarkAsFinal(n, fail) \/ ApiMarkFinal(n, fail)
         /\ last'.ok
         /\ \E a \in FinalMockups : a.id # MockupId(n) )
       => ( /\ FinalMockups' # {}
            /\ \A b \in FinalMockups' :
                  /\ b.id = MockupId(n)
                  /\ \A t \in sessions' : t.final_mockup_url = b.image_url )
    ]_vars

\* C2: a session never has more than one mockup with is_final = true, also
\* when two mark-final requests for different mockups of it interleave.
C2_AtMostOneFinal == Cardinality(FinalMockups) <= 1

\* C3: a successful generateMockup adds a mockup row with is_final = false
\* and leaves the session's final_mockup_url as it was before the generation.
C3_GenerateKeepsFinalUrl ==
  [][\A fail \in 0..6 :
       (GenerateMockup(fail) /\ last'.ok)
       => /\ nMockups' = nMockups + 1
          /\ \A r \in mockups' \ mockups : ~r.is_final
          /\ \A s \in sessions, t \in sessions' :
               t.final_mockup_url = s.final_mockup_url
    ]_vars

\* C4: after a removePhoto that reported success the session has no photo,
\* no mockup row, and no final_mockup_url.
C4_RemovePhotoClears ==
  (last.op = "removePhoto" /\ last.ok)
  => /\ \A s \in sessions : /\ ~Truthy(s.original_image_url)
                             /\ ~Truthy(s.final_mockup_url)
     /\ MockupsOf(DB, SessionId) = {}

C6_EmptyEstimateRejected ==
  [][\A fail \in 0..2 :
       (SaveEstimate(<<>>, fail) \/ ApiSaveEstimate(<<>>, fail))
       => /\ ~last'.ok
          /\ estimates' = estimates
          /\ \A s \in sessions, t \in sessions' : t.status = s.status
    ]_vars

\* the signing postcondition: the estimate shown has its contract and its
\* signing time, and the session is contract_signed
SignedState(est, sess) ==
  /\ \A e \in est : /\ e.contract_pdf_url # NULL
                     /\ e.signed_at # NULL
  /\ \A t \in sess : t.status = "contract_signed"

\* C7: a successful in-app signature and a successful upload of a signed
\* contract end in the same state: contract_pdf_url and signed_at set, session
\* status contract_signed, client confirmation and team alert dispatched.
C7_SigningPathsConverge ==
  [][\A thrown \in BOOLEAN :
       (SignContract(0, thrown) \/ UploadSignedContract(TRUE, 0, thrown))
       => /\ last'.ok
          /\ SignedState(EstimatesOf(DB, SessionId)', sessions')
          /\ last'.sent = {"contract_signed", "team_notification"}
    ]_vars

\* C8: when a notification fails after a successful signing, on either path,
\* the estimate keeps contract_pdf_url and signed_at, the session still
\* reaches contract_signed, and the signing is not reported as failed.
C8_NotificationFailureKeepsSigning ==
  [][\A thrown \in BOOLEAN :
       ( \/ \E fail \in 5..6 : SignContract(fail, thrown)
         \/ \E fail \in 4..5 : UploadSignedContract(TRUE, fail, thrown) )
       => /\ last'.ok
          /\ SignedState(EstimatesOf(DB, SessionId)', sessions')
    ]_vars

\* C9: the first completeSession sets status completed and dispatches one
\* notification; a call on a session that is already completed changes no
\* row, dispatches nothing and reports no error.
C9_CompleteSessionIdempotent ==
  [][\A fail \in 0..2 :
       CompleteSession(fail)
       => IF \E s \in sessions : s.status = "completed"
          THEN /\ last'.ok
               /\ last'.sent = {}
               /\ UNCHANGED dbVars
          ELSE fail = 0
               => /\ \A t \in sessions' : t.status = "completed"
                  /\ last'.sent = {"project_complete"}
    ]_vars

\* the stages whose completion predicate holds of the data on the page, and
\* the highest of them (0 when there is none)
CompletedStages(sess, est) ==
  {k \in 1..6 :
     \/ k = 1 /\ Truthy(sess.client_name) /\ sess.client_name # Placeholder
     \/ k = 2 /\ Truthy(sess.original_image_url)
     \/ k = 3 /\ Truthy(sess.final_mockup_url)
     \/ k = 4 /\ est.id # NULL
     \/ k \in {5, 6} /\ est.id # NULL /\ est.signed_at # NULL}
HighestCompleted(sess, est) ==
  IF CompletedStages(sess, est) = {} THEN 0
  ELSE CHOOSE k \in CompletedStages(sess, est) :
         \A j \in CompletedStages(sess, est) : j <= k

\* C10: a navigation request to step K is honoured exactly when
\* K <= highest completed stage + 1, and after any step click, Next or Back
\* the step shown is at most highest completed stage + 1.
C10_NavigationWithinReach ==
  [][/\ \A k \in 1..6 :
          StepClick(k)
          => (last'.ok <=> k <= HighestCompleted(uiSession, uiEstimate) + 1)
     /\ ((\E k \in 1..6 : StepClick(k)) \/ NextStep \/ BackStep)
        => currentStep' <= HighestCompleted(uiSession, uiEstimate)' + 1
    ]_vars

\* the persisted session row and estimate (a signed one when there is one),
\* and the highest stage the persisted data makes reachable
DbSession == IF IsSingle(sessions) THEN Single(sessions) ELSE NoSession
DbEstimate ==
  LET ests == EstimatesOf(DB, SessionId)
      signed == {e \in ests : e.signed_at # NULL}
  IN  IF signed # {} THEN CHOOSE e \in signed : TRUE
      ELSE IF ests # {} THEN CHOOSE e \in ests : TRUE
      ELSE NoEstimate
MaxReachable == HighestCompleted(DbSession, DbEstimate) + 1

\* C11: an operation on a stage beyond the maximum reachable stage (saving a
\* non-empty estimate, stage 4; generating, signing or uploading the contract, stage 5;
\* completing the session, stage 6) is rejected and writes no row.
C11_UnreachableStageRejected ==
  [][/\ (\E fail \in 0..2 :
            SaveEstimate(<<"sod">>, fail) \/ ApiSaveEstimate(<<"sod">>, fail))
        /\ MaxReachable < 4
        => ~last'.ok /\ UNCHANGED dbVars
     /\ (\E fail \in 0..7, thrown \in BOOLEAN :
            \/ GenerateContract(fail)
            \/ SignContract(fail, thrown)
            \/ UploadSignedContract(TRUE, fail, thrown))
        /\ MaxReachable < 5
        => ~last'.ok /\ UNCHANGED dbVars
     /\ (\E fail \in 0..2 : CompleteSession(fail)) /\ MaxReachable < 6
        => ~last'.ok /\ UNCHANGED dbVars
    ]_vars

\* what each source yields for the request; an unconfigured or failing
\* source yields nothing
SourceYields(category, db, sheet) ==
  <<DbItems(category, db),
    IF sheet.kind = "rows" THEN SheetItems(category, sheet.rows) ELSE <<>>,
    SelectSeq(DefaultItems, LAMBDA it : MatchesCategory(it, category))>>

\* C12: fetchPricing returns the items of the first of catalog table,
\* spreadsheet and built-in list that yields a non-empty result; a source
\* that yields nothing is skipped.
C12_FirstNonEmptySource ==
  calc.op = "fetchPricing"
  => LET y == SourceYields(calc.category, calc.db, calc.sheet)
     IN  \A i \in 1..3 :
           (Len(y[i]) > 0 /\ \A j \in 1..(i - 1) : Len(y[j]) = 0)
           => calc.out.items = y[i]

\* C13: whatever the catalog table and the spreadsheet do, fetchPricing
\* answers with success and a list.
C13_FetchPricingNeverFails ==
  calc.op = "fetchPricing"
  => calc.out.ok /\ calc.out.items \in Seq([id : STRING, category : STRING])

\* both sources failed and the defaults were served
C13_Witness ==
  /\ calc.op = "fetchPricing"
  /\ calc.db.error /\ calc.sheet.kind = "error"
  /\ calc.out.ok /\ calc.out.source = "default"

\* the totals the claim's formulas give, tax on the amount after discount
ClaimedTotals(items, discountPercent, taxPercent) ==
  LET subtotal == SumOf(items, "selectedPrice")
      discountAmount == FMul(subtotal, FDiv(Fl(discountPercent, 0), Fl(100, 0)))
      rest == FSub(subtotal, discountAmount)
      taxAmount == FMul(rest, FDiv(Fl(taxPercent, 0), Fl(100, 0)))
  IN  [subtotal |-> subtotal, discountAmount |-> discountAmount,
       taxAmount |-> taxAmount, total |-> FAdd(rest, taxAmount)]

\* the two items of the worked example: 2 x 10.00 and 1 x 5.00
ExampleItems ==
  <<[quantity |-> 2, selectedPrice |-> 1000, lowPrice |-> 800,
     highPrice |-> 1200],
    [quantity |-> 1, selectedPrice |-> 500, lowPrice |-> 400,
     highPrice |-> 600]>>

\* C14: the builder and the route compute the same totals: the subtotal is
\* the sum of quantity * selectedPrice, the discount amount is subtotal *
\* (discount / 100), the tax amount is (subtotal - discount amount) *
\* (tax / 100), so tax is charged on the amount after discount, and the total
\* is (subtotal - discount amount) + tax amount; the items (2 x 10.00,
\* 1 x 5.00) at discount 10 and tax 8 give 25.00, 2.50, 1.80 and 24.30.
C14_TotalsFormula ==
  calc.op = "computeTotals" =>
    LET c == ClaimedTotals(calc.items, calc.discountPercent, calc.taxPercent)
        t == calc.out
    IN  /\ calc.shown = [f \in DOMAIN calc.shown |-> t[f]]
        /\ calc.shown = c
        /\ t.taxAmount =
             FMul(FSub(t.subtotal, t.discountAmount),
                  FDiv(Fl(calc.taxPercent, 0), Fl(100, 0)))
        /\ t.total = FAdd(FSub(t.subtotal, t.discountAmount), t.taxAmount)
        /\ (calc.items = ExampleItems /\ calc.discountPercent = 10
              /\ calc.taxPercent = 8) =>
             /\ t.subtotal = Num(2500) /\ ToFixed2(t.subtotal) = 2500
             /\ t.discountAmount = Num(250)
             /\ ToFixed2(t.discountAmount) = 250
             /\ t.taxAmount = Num(180) /\ ToFixed2(t.taxAmount) = 180
             /\ t.total = Num(2430) /\ ToFixed2(t.total) = 2430

C14_Witness ==
  /\ calc.op = "computeTotals"
  /\ calc.items = ExampleItems
  /\ calc.discountPercent = 10
  /\ calc.taxPercent = 8
  /\ ToFixed2(calc.out.total) = 2430

\* the rearrangements of an item list
Rearrangements(items) ==
  LET n == Len(items)
  IN  {[i \in 1..n |-> items[f[i]]] :
         f \in {g \in [1..n -> 1..n] : \A i, j \in 1..n : g[i] = g[j] => i = j}}

\* C15: the totals do not depend on the order of the items: every
\* rearrangement of the item list gives the same subtotal, total, low
\* estimate and high estimate.
C15_OrderIndependent ==
  calc.op = "computeTotals" =>
    \A items \in Rearrangements(calc.items) :
      LET t == RouteTotals(items, calc.discountPercent, calc.taxPercent)
      IN  /\ t.subtotal = calc.out.subtotal
          /\ t.total = calc.out.total
          /\ t.lowEstimate = calc.out.lowEstimate
          /\ t.highEstimate = calc.out.highEstimate

\* C16: on a loaded session the set of completed steps holds step 1 exactly
\* when the client name is non-empty and not the placeholder, step 2 exactly
\* when the photo is set, step 3 exactly when the final mockup is set, step 4
\* exactly when an estimate exists, steps 5 and 6 exactly when the estimate
\* is signed.
C16_CompletedSetFromData ==
  Loaded =>
    /\ 1 \in CompletedSteps <=>
         Truthy(uiSession.client_name) /\ uiSession.client_name # Placeholder
    /\ 2 \in CompletedSteps <=> Truthy(uiSession.original_image_url)
    /\ 3 \in CompletedSteps <=> Truthy(uiSession.final_mockup_url)
    /\ 4 \in CompletedSteps <=> uiEstimate.id # NULL
    /\ 5 \in CompletedSteps <=> uiEstimate.signed_at # NULL
    /\ 6 \in CompletedSteps <=> uiEstimate.signed_at # NULL

\* C17: a session never has more than one estimate row, however many times
\* an estimate is saved for it (counting the estimates of at least one item,
\* the only ones a save may create).
C17_OneEstimatePerSession ==
  \A s \in sessions :
    Cardinality({e \in estimates :
                   e.session_id = s.id /\ e.items # <<>>}) <= 1

\* C18: generating a mockup for a session that has no photo is rejected: the
\* operation reports failure, no mockup row is added and the session row is
\* unchanged.
C18_NoPhotoNoMockup ==
  [][\A fail \in 0..6 :
       GenerateMockup(fail) /\ ~Truthy(DbSession.original_image_url)
         => /\ ~last'.ok
            /\ mockups' = mockups /\ nMockups' = nMockups
            /\ sessions' = sessions]_vars

\* C19: marking a mockup final reports failure whenever one of its three
\* updates (reset the session's mockups, set the chosen one final, set the
\* session's final_mockup_url) fails; it reports success only when all three
\* were applied.
C19_MarkFinalAllOrFailure ==
  [][\A n \in 1..MaxMockups :
       /\ \A fail \in 1..3 : MarkAsFinal(n, fail) => ~last'.ok
       /\ \A fail \in 2..4 : ApiMarkFinal(n, fail) => ~last'.ok
       /\ \A fail \in 0..4 :
            (MarkAsFinal(n, fail) \/ ApiMarkFinal(n, fail)) /\ last'.ok
              => /\ FinalMockups' = {MockupId(n)}
                 /\ \E mk \in mockups' :
                      /\ mk.id = MockupId(n)
                      /\ DbSession'.final_mockup_url = mk.image_url]_vars

\* C20: the mark-final request can be run again: a run that follows a failed
\* run of the same request, whichever call the failed run stopped at, and a
\* run that follows a successful one, leave what one successful run leaves:
\* the chosen mockup is the session's only final mockup and the session's
\* final_mockup_url is its image_url.
C20_MarkFinalRerunnable ==
  [][\A n \in 1..MaxMockups, fail \in 0..4 :
       MarkFinalRerun(n, fail) /\ last'.ok
         => /\ FinalMockups' = {mk \in mockups' : mk.id = MockupId(n)}
            /\ Cardinality(FinalMockups') = 1
            /\ \A mk \in FinalMockups' :
                 DbSession'.final_mockup_url = mk.image_url
            /\ [s |-> sessions', m |-> mockups'] =
                 LET once == MarkFinalRoute(DB, SessionId, MockupId(n), 0).db
                 IN  [s |-> once.s, m |-> once.m]]_vars

\* a failed run was retried to success while another mockup was the final one
C20_Witness ==
  /\ last.op = "markFinalRerun" /\ last.ok /\ last.arg = "retried"
  /\ Cardinality(mockups) = 2
  /\ Cardinality(FinalMockups) = 1

\* the status of every session row, by id
StatusOf(rows) == {<<r.id, r.status>> : r \in rows}

\* C21: a step click, Next, Back and a photo upload or re-upload, failed or
\* not, leave the persisted status of the session as it was, whatever it was.
C21_NavigationAndUploadKeepStatus ==
  [][(\/ \E k \in 1..6 : StepClick(k)
      \/ NextStep
      \/ BackStep
      \/ \E fail \in 0..3 : UploadPhoto(fail))
       => StatusOf(sessions') = StatusOf(sessions)]_vars

\* a photo was uploaded again after the estimate had been generated
C21_Witness ==
  /\ last.op = "uploadPhoto" /\ last.ok
  /\ DbSession.status \in {"estimate_generated", "contract_signed", "completed"}
  /\ DbSession.original_image_url = PhotoUrl

\* C22: for an estimate saved from the builder with items picked from the
\* catalog, the stored low_estimate is the sum of quantity * catalog low
\* price and the stored high_estimate the sum of quantity * catalog high
\* price of those items.
C22_PriceRangeFromCatalog ==
  calc.op = "buildEstimate" =>
    /\ calc.inserted.low_estimate =
         [null |-> FALSE, number |-> SumOf(calc.items, "low_price")]
    /\ calc.inserted.high_estimate =
         [null |-> FALSE, number |-> SumOf(calc.items, "high_price")]

\* C23: generateMockup, saveEstimate, generateContract with or without a
\* signature, uploadSignedContract and completeSession never move the
\* persisted status to an earlier stage of draft < photo_uploaded <
\* mockup_created < estimate_generated < contract_signed < completed, so
\* completed is never left.
C23_StatusNeverRegresses ==
  [][last'.op \in {"generateMockup", "saveEstimate", "generateContract",
                   "signContract", "uploadSignedContract", "completeSession"}
       => StatusToStep(DbSession'.status) >= StatusToStep(DbSession.status)]_vars

\* C24: whenever the persisted status of the session is contract_signed or
\* completed, the session has an estimate whose signed_at is set.
C24_SignedStatusHasSignedEstimate ==
  \A s \in sessions :
    s.status \in {"contract_signed", "completed"}
      => \E e \in estimates : e.session_id = s.id /\ e.signed_at # NULL

\* C25: between operations, the session's final_mockup_url is set exactly
\* when some mockup of that session is final, and it is then that mockup's
\* image_url.
C25_FinalUrlMatchesFinalMockup ==
  \A s \in sessions :
    LET finals == {mk \in mockups : mk.session_id = s.id /\ mk.is_final}
    IN  /\ Truthy(s.final_mockup_url) <=> finals # {}
        /\ \A mk \in finals : s.final_mockup_url = mk.image_url

\* C26: generateContract without signature data leaves every estimate whose
\* signed_at is set as it was (contract_pdf_url, signature_data and
\* signed_at), and a signed estimate's contract_pdf_url is never the unsigned
\* document.
C26_SignedContractKept ==
  [][/\ \A fail \in 0..4 :
          GenerateContract(fail)
            => \A e \in estimates : e.signed_at # NULL => e \in estimates'
     /\ \A e \in estimates' :
          e.signed_at # NULL => e.contract_pdf_url # UnsignedPdf]_vars

\* C27: when generateMockup, saveEstimate or generateContract (with or
\* without a signature) reports success, the status it writes is the
\* session's persisted status; it is never success with the status write
\* not applied.
C27_SuccessMeansStatusWritten ==
  [][/\ \A fail \in 0..6 :
          GenerateMockup(fail) /\ last'.ok
            => DbSession'.status = "mockup_created"
     /\ \A items \in ItemLists, fail \in 0..2 :
          (SaveEstimate(items, fail) \/ ApiSaveEstimate(items, fail))
            /\ last'.ok
            => DbSession'.status = "estimate_generated"
     /\ \A fail \in 0..4 :
          GenerateContract(fail) /\ last'.ok
            => DbSession'.status = "estimate_generated"
     /\ \A fail \in 0..7, thrown \in BOOLEAN :
          SignContract(fail, thrown) /\ last'.ok
            => DbSession'.status = "contract_signed"]_vars

\* a datastore in which every write of the workflow finds the rows it needs:
\* the session with status st and a photo, one mockup, one estimate
StatusTemplate(st) ==
  [s |-> {[NewSession EXCEPT !.status = st, !.original_image_url = PhotoUrl]},
   m |-> {[id |-> MockupId(1), session_id |-> SessionId,
           image_url |-> MockupId(1), is_final |-> FALSE]},
   e |-> {[NoEstimate EXCEPT !.id = EstimateId(1), !.session_id = SessionId,
                             !.items = <<"sod">>]},
   nm |-> 1, ne |-> 1]

\* what any one write of the workflow, sent at any time and failing at any
\* call or none, makes of the datastore D
DbSuccessors(D) ==
  {UpdSession(D, SessionId, [client_name |-> "Alice", client_email |-> "a@b.c"]),
   UpdSession(D, SessionId, [original_image_url |-> PhotoUrl]),
   UpdSession(D, SessionId, [status |-> "contract_signed"]),
   UpdSession(D, SessionId, [status |-> "completed"])}
  \cup {DeletePhotoRoute(D, SessionId, PhotoUrl, f).db : f \in 0..3}
  \cup {GenerateMockupRoute(D, SessionId, PhotoUrl, f).db : f \in 0..5}
  \cup {MarkFinalRoute(D, SessionId, MockupId(1), f).db : f \in 0..4}
  \cup {SaveEstimateRoute(D, SessionId, i, f).db : i \in ItemLists, f \in 0..2}
  \cup {GenerateContractRoute(D, SessionId, EstimateId(1), sg, f).db :
          sg \in BOOLEAN, f \in 0..4}
  \cup {UploadSignedContractRoute(D, SessionId, EstimateId(1), TRUE, f).db :
          f \in 0..3}

\* the statuses one write can turn status st into; no write's status depends
\* on anything but st, so the template loses none
StatusSuccessors(st) ==
  {r.status : r \in UNION {D.s : D \in DbSuccessors(StatusTemplate(st))}}

\* the statuses some sequence of writes leads to from the statuses in S
RECURSIVE StatusesFrom(_)
StatusesFrom(S) ==
  LET T == S \cup UNION {StatusSuccessors(st) : st \in S}
  IN  IF T = S THEN S ELSE StatusesFrom(T)

\* C28: each of the six status values can be reached: from a new session
\* (status draft) some sequence of operations leads to draft, photo_uploaded,
\* mockup_created, estimate_generated, contract_signed and completed; in
\* particular photo_uploaded is among them.
C28_EveryStatusReachable ==
  DbSession.status = "draft" =>
    \A i \in 1..Len(WORKFLOW_STEPS) :
      WORKFLOW_STEPS[i] \in StatusesFrom({DbSession.status})

\* C29: between operations, a session whose original_image_url is unset has
\* no mockup rows, also when a photo removal runs while a mockup generation
\* that was requested with the photo still set is in flight.
C29_NoPhotoNoMockupRows ==
  (\A c \in Clients : requests[c].pc = "idle") =>
    \A s \in sessions :
      ~Truthy(s.original_image_url)
        => {mk \in mockups : mk.session_id = s.id} = {}

\* C30: saving the client info, in one piece or with other operations
\* running between its two writes, leaves the session's status,
\* original_image_url and final_mockup_url at the values other operations
\* wrote last.
C30_ClientInfoKeepsOtherColumns ==
  [][(\/ \E name \in ClientNames, email \in ClientEmails, fail \in 0..2 :
           SaveClientInfo(name, email, fail)
      \/ \E c \in Clients, name \in ClientNames, email \in ClientEmails :
           SaveClientInfoBegin(c, name, email)
      \/ \E c \in Clients : SaveClientInfoEnd(c))
       => /\ DbSession'.status = DbSession.status
          /\ DbSession'.original_image_url = DbSession.original_image_url
          /\ DbSession'.final_mockup_url = DbSession.final_mockup_url]_vars

====
